---- MODULE Spec2Model ----
(***************************************************************************)
(* State-machine model of twitch_video_processor.py: the ledger file       *)
(* (processed_videos.txt), the catalog calls, the per-item loop of main()  *)
(* and the scratch / output directories.                                   *)
(*                                                                         *)
(* Strings the code inspects character by character (identifiers, ledger   *)
(* lines, file names) are sequences of one-character strings, so that      *)
(* strip() and startswith() are computed, not assumed.                     *)
(***************************************************************************)
EXTENDS Integers, Sequences, FiniteSets, TLC

VARIABLES
    run,                    \* number of program launches so far
    pc,                     \* position of the running program ("idle": not running)
    username,               \* TWITCH_STREAMER_USERNAME of this launch
    client_id,              \* TWITCH_CLIENT_ID of this launch
    token,                  \* TWITCH_APP_ACCESS_TOKEN of this launch
    ledgerExists,           \* processed_videos.txt exists
    ledger,                 \* its lines, in file order
    processed_video_ids,    \* main: the set load_processed_videos returned
    user_id,                \* main: result of get_twitch_user_id
    videos_data,            \* get_new_videos: the "data" list of the response
    new_videos,             \* main: the worklist
    idx,                    \* main: position of the for loop in new_videos
    downloaded_video_path,  \* main: result of download_video (<<>> is None)
    success_count,
    failure_count,
    scratch,                \* file names in twitch_clips/temp_downloads
    frameDirs,              \* identifiers with a directory twitch_clips/<id>
    frameSet,               \* history: identifiers extract_frames returned True for
    netCalls,               \* history: requests.get calls of this launch
    ledgerOps,              \* history: what this launch did to the ledger file
    ledgerStart,            \* history: the ledger lines when this launch started
    ledgerStartExists,      \* history: whether the file existed then
    runDownloaded,          \* history: ids download_video returned a path for, this launch
    runExtracted,           \* history: ids extract_frames returned True for, this launch
    outcomes,               \* history: per finished worklist item, "ok" / "dl_fail" / "ex_fail"
    summary,                \* history: line 235 was logged by this launch
    crashedIn,              \* history: function an uncaught exception escaped from
    noNew,                  \* history: every listed identifier was already a ledger line
    apiAnswer,              \* history: the last answer of the remote API in this launch
    lastRun,                \* history: how the previous launch ended
    stageCalls,             \* history: calls of download_video and extract_frames, this launch
    keptFiles,              \* history: <<id, path>> of each False extract_frames, this launch
    dlFailed                \* history: ids download_video returned None for, in any launch

vars == << run, pc, username, client_id, token, ledgerExists, ledger,
           processed_video_ids, user_id, videos_data, new_videos, idx,
           downloaded_video_path, success_count, failure_count, scratch,
           frameDirs, frameSet, netCalls, ledgerOps, ledgerStart,
           ledgerStartExists, runDownloaded, runExtracted,
           outcomes, summary, crashedIn, noNew, apiAnswer, lastRun,
           stageCalls, keptFiles, dlFailed >>

-----------------------------------------------------------------------------
(* Bounds *)

\* program launches
MaxRuns == 2
\* entries of one /videos answer in Spec (the request asks for first=5)
MaxListing == 2
\* entries of the listing given to the filter in SpecFilter
MaxFilterLen == 3

-----------------------------------------------------------------------------
(* Values *)

\* the identifiers the remote API hands out: a plain one, and one that starts
\* with the plain one and ends in a blank
IdA == << "a" >>
IdPad == << "a", "b", " " >>
Ids == { IdA, IdPad }

\* a falsy "id" of a listing entry: the key is missing (None) or the string is empty
NoId == << >>
\* Python None for a path
None == << >>

Placeholder == "placeholder"
ConfigValues == { Placeholder, "", "valid" }

Whitespace == { " ", "\n" }

Truthy(s) == s # << >>

RECURSIVE LStrip(_)
LStrip(s) ==
    IF s # << >> /\ Head(s) \in Whitespace THEN LStrip(Tail(s)) ELSE s

RECURSIVE RStrip(_)
RStrip(s) ==
    IF s # << >> /\ s[Len(s)] \in Whitespace
    THEN RStrip(SubSeq(s, 1, Len(s) - 1))
    ELSE s

\* str.strip()
Strip(s) == RStrip(LStrip(s))

\* str.startswith(prefix)
StartsWith(s, prefix) ==
    /\ Len(prefix) <= Len(s)
    /\ SubSeq(s, 1, Len(prefix)) = prefix

\* the file the downloader writes for the template "<video_id>.%(ext)s"
FileName(video_id) == video_id \o << "." >>

-----------------------------------------------------------------------------
(* Dedup ledger: load_processed_videos / save_processed_video *)

\* line 53: the line save_processed_video appends, str(video_id) + "\n"
SaveLine(video_id) == video_id \o << "\n" >>

\* line 48: set(line.strip() for line in f)
LoadSet(lines) == { Strip(lines[k]) : k \in DOMAIN lines }

\* lines 43-48: what load_processed_videos returns
load_processed_videos(exists, lines) ==
    IF ~exists THEN {} ELSE LoadSet(lines)

\* lines 43-45: the operation load_processed_videos performs on the file
LoadOp(exists) == IF ~exists THEN "create" ELSE "read"

\* the ledger opened in mode "w" whether or not it exists
FileAfterLoad_AlwaysCreate(exists, lines) == << >>

\* lines 43-45: the lines of the file after load_processed_videos, which opens
\* it in mode "w" only when it does not exist
FileAfterLoad(exists, lines) == IF ~exists THEN << >> ELSE lines

\* the ledger opened in mode "w" instead of "a"
save_processed_video_Truncating(lines, video_id) == << SaveLine(video_id) >>

\* lines 52-53: the file after save_processed_video(video_id), opened in mode "a"
save_processed_video(lines, video_id) == Append(lines, SaveLine(video_id))

-----------------------------------------------------------------------------
(* Catalog client: get_twitch_user_id / get_new_videos *)

\* what the remote API can answer to GET /users
UserResponses ==
    { "ok", "transport_error", "http_error", "bad_json", "not_object",
      "no_data", "entry_no_id" }

\* line 66: the answers to a request for login=<username>; the API resolves no
\* empty login to a user
UserAnswers(u) == IF u = "" THEN UserResponses \ { "ok" } ELSE UserResponses

\* what the remote API can answer to GET /videos
VideoResponses ==
    { "ok", "transport_error", "http_error", "bad_json", "not_object",
      "data_null", "entry_not_object" }

\* lines 58-59: the credential test of get_twitch_user_id
CredentialsUnset(cid, tok) ==
    \/ cid = ""
    \/ cid = Placeholder
    \/ tok = ""
    \/ tok = Placeholder

\* lines 56-85: ret is the returned value ("" is None), exc the exception that
\* escapes, net the number of requests.get calls made
get_twitch_user_id(cid, tok, resp) ==
    IF CredentialsUnset(cid, tok)
    THEN [ ret |-> "", exc |-> "none", net |-> 0 ]
    ELSE CASE resp = "ok" -> [ ret |-> "uid", exc |-> "none", net |-> 1 ]
           [] resp \in { "transport_error", "http_error", "bad_json" } ->
                \* except HTTPError / RequestException / JSONDecodeError
                [ ret |-> "", exc |-> "none", net |-> 1 ]
           [] resp = "no_data" ->
                \* line 71: data.get("data") is missing or empty
                [ ret |-> "", exc |-> "none", net |-> 1 ]
           [] resp = "not_object" ->
                \* line 71: the JSON value has no .get
                [ ret |-> "", exc |-> "AttributeError", net |-> 1 ]
           [] resp = "entry_no_id" ->
                \* line 72: data["data"][0]["id"], no except clause for KeyError
                [ ret |-> "", exc |-> "KeyError", net |-> 1 ]

Untitled == "Untitled Video"
\* an entry without a "title" key
NoTitle == "(no title)"

\* lines 102-107: the worklist entry built from a listing entry
NewVideo(video) ==
    [ id |-> video.id,
      title |-> IF video.title = NoTitle THEN Untitled ELSE video.title ]

\* the test of line 101 without the look-up in processed_videos
IsNew_IgnoreLedger(video, processed_videos) == Truthy(video.id)

\* line 101: the test an entry passes to enter the worklist
IsNew(video, processed_videos) ==
    Truthy(video.id) /\ video.id \notin processed_videos

\* lines 99-107: the loop over videos_data
RECURSIVE FilterNew(_, _)
FilterNew(data, processed_videos) ==
    IF data = << >>
    THEN << >>
    ELSE LET video == Head(data)
             rest == FilterNew(Tail(data), processed_videos)
         IN  IF IsNew(video, processed_videos)
             THEN << NewVideo(video) >> \o rest
             ELSE rest

\* lines 95-125: what get_new_videos does with the response (user_id is truthy)
get_new_videos(resp, data, processed_videos) ==
    CASE resp = "ok" ->
            [ ret |-> FilterNew(data, processed_videos), exc |-> "none" ]
      [] resp \in { "transport_error", "http_error", "bad_json" } ->
            [ ret |-> << >>, exc |-> "none" ]
      [] resp = "not_object" ->
            \* line 98: response.json().get on a list / string / number
            [ ret |-> << >>, exc |-> "AttributeError" ]
      [] resp = "data_null" ->
            \* line 100: for video in None
            [ ret |-> << >>, exc |-> "TypeError" ]
      [] resp = "entry_not_object" ->
            \* line 101: video.get on an entry that is not a dict
            [ ret |-> << >>, exc |-> "AttributeError" ]

-----------------------------------------------------------------------------
(* Acquisition and transform stages: download_video / extract_frames *)

\* how one invocation of the downloader can end
DownloadOutcomes ==
    { "tool_missing", "nonzero", "nonzero_partial", "zero_file", "zero_nofile" }

\* the scratch directory after the downloader ran for video_id
FilesAfterDownload(files, video_id, outcome) ==
    IF outcome \in { "zero_file", "nonzero_partial" }
    THEN files \cup { FileName(video_id) }
    ELSE files

\* lines 142-143: the directory entries whose name starts with video_id
Matching(files, video_id) == { f \in files : StartsWith(f, video_id) }

\* line 142: os.listdir yields the entries in an order the code does not choose;
\* the entries that can be the first matching one (None when there is none)
FirstMatches(files, video_id) ==
    IF Matching(files, video_id) = {} THEN { None } ELSE Matching(files, video_id)

\* lines 127-158: ret is the returned path (None when the stage fails), files the
\* scratch directory afterwards; pick is the first matching entry of the scan
download_video(video_id, files, outcome, pick) ==
    LET after == FilesAfterDownload(files, video_id, outcome)
    IN  IF outcome \in { "tool_missing", "nonzero", "nonzero_partial" }
        THEN \* except FileNotFoundError / CalledProcessError
             [ ret |-> None, files |-> after ]
        ELSE \* lines 142-148
             [ ret |-> pick, files |-> after ]

\* how one invocation of extract_frames can end once the path test has passed
ExtractOutcomes == { "ok", "nonzero", "tool_missing", "mkdir_error" }

\* lines 160-189: ret is the returned value, exc the exception that escapes,
\* dirs the per-item output directories afterwards
extract_frames(video_path, video_id, files, dirs, outcome) ==
    IF ~Truthy(video_path) \/ video_path \notin files
    THEN \* lines 162-164
         [ ret |-> FALSE, exc |-> "none", dirs |-> dirs ]
    ELSE IF outcome = "mkdir_error" /\ video_id \notin dirs
    THEN \* line 166: os.makedirs raises outside the try block
         [ ret |-> FALSE, exc |-> "OSError", dirs |-> dirs ]
    ELSE [ ret |-> outcome = "ok", exc |-> "none", dirs |-> dirs \cup { video_id } ]

-----------------------------------------------------------------------------
(* Pipeline orchestrator: the __main__ block and main() *)

\* the test of lines 195-197 without the two credentials
ConfigIsPlaceholder_UsernameOnly(u, cid, tok) == u = Placeholder

\* lines 195-197: the placeholder test of main
ConfigIsPlaceholder(u, cid, tok) ==
    \/ u = Placeholder
    \/ cid = Placeholder
    \/ tok = Placeholder

\* line 220 without the test of the returned value
AfterExtract_IgnoreResult(ok) == "save"

\* line 220: where main goes with the value extract_frames returned
AfterExtract(ok) == IF ok THEN "save" ELSE "next"

\* line 219 without the test of the returned path
AfterDownload_IgnoreResult(path) == "extract"

\* line 219: where main goes with the value download_video returned
AfterDownload(path) == IF Truthy(path) THEN "extract" ELSE "next"

\* line 203 without the test of user_id
AfterResolve_NoCheck(ret) == "list"

\* lines 203-205: main returns when get_twitch_user_id gave no user id
AfterResolve(ret) == IF ret = "" THEN "done" ELSE "list"

\* lines 207-209 missing: main falls through to the loop and line 235
ReturnsOnEmpty_Never(worklist) == FALSE

\* lines 207-209: main returns when get_new_videos gave an empty worklist
ReturnsOnEmpty(worklist) == worklist = << >>

\* lines 231 and 234 missing: a failed item is not counted
CountFailure_Forgotten(n) == n

\* lines 231 and 234: failure_count += 1
CountFailure(n) == n + 1

\* lines 224-225 without the except clause of lines 227-228
AfterRemove_Uncaught(removed) == IF removed THEN "next" ELSE "raise"

\* lines 224-228: where main goes after os.remove; its OSError is caught and logged
AfterRemove(removed) == "next"

\* the identifier of the item the for loop is at (line 215)
CurId == new_videos[idx].id

\* the identifiers written on the ledger file
LedgerIds(lines) == { SubSeq(lines[k], 1, Len(lines[k]) - 1) : k \in DOMAIN lines }

\* the locals of a process that is not running
NoLocals ==
    /\ processed_video_ids' = {}
    /\ user_id' = ""
    /\ videos_data' = << >>
    /\ new_videos' = << >>
    /\ idx' = 0
    /\ downloaded_video_path' = None
    /\ success_count' = 0
    /\ failure_count' = 0

NoHistory ==
    /\ netCalls' = 0
    /\ ledgerOps' = {}
    /\ runDownloaded' = {}
    /\ runExtracted' = {}
    /\ outcomes' = << >>
    /\ summary' = FALSE
    /\ crashedIn' = "none"
    /\ noNew' = FALSE
    /\ apiAnswer' = "none"
    /\ stageCalls' = 0
    /\ keptFiles' = {}

disk == << ledgerExists, ledger, scratch, frameDirs, frameSet >>
config == << username, client_id, token >>
locals == << processed_video_ids, user_id, videos_data, new_videos, idx,
             downloaded_video_path, success_count, failure_count >>
history == << netCalls, ledgerOps, runDownloaded, runExtracted, outcomes,
              summary, crashedIn, noNew, apiAnswer, stageCalls, keptFiles >>
startOfRun == << ledgerStart, ledgerStartExists, lastRun >>

Init ==
    /\ run = 0
    /\ pc = "idle"
    /\ username = Placeholder
    /\ client_id = Placeholder
    /\ token = Placeholder
    /\ ledgerExists = FALSE
    /\ ledger = << >>
    /\ processed_video_ids = {}
    /\ user_id = ""
    /\ videos_data = << >>
    /\ new_videos = << >>
    /\ idx = 0
    /\ downloaded_video_path = None
    /\ success_count = 0
    /\ failure_count = 0
    /\ scratch = {}
    /\ frameDirs = {}
    /\ frameSet = {}
    /\ netCalls = 0
    /\ ledgerOps = {}
    /\ ledgerStart = << >>
    /\ ledgerStartExists = FALSE
    /\ runDownloaded = {}
    /\ runExtracted = {}
    /\ outcomes = << >>
    /\ summary = FALSE
    /\ crashedIn = "none"
    /\ noNew = FALSE
    /\ apiAnswer = "none"
    /\ lastRun = "none"
    /\ stageCalls = 0
    /\ keptFiles = {}
    /\ dlFailed = {}

\* the script is launched with the configuration written in lines 10-15
Launch(u, cid, tok) ==
    /\ pc = "idle"
    /\ pc' = "boot"
    /\ username' = u
    /\ client_id' = cid
    /\ token' = tok
    /\ ledgerStart' = ledger
    /\ ledgerStartExists' = ledgerExists
    /\ NoLocals
    /\ NoHistory
    /\ UNCHANGED << disk, lastRun, dlFailed >>

\* one of the MaxRuns launches
Start(u, cid, tok) ==
    /\ run < MaxRuns
    /\ run' = run + 1
    /\ Launch(u, cid, tok)

\* lines 238-239: ensure_dir(OUTPUT_DIRECTORY); load_processed_videos()
Preamble ==
    /\ pc = "boot"
    /\ pc' = "main"
    /\ ledgerOps' = ledgerOps \cup { LoadOp(ledgerExists) }
    /\ ledger' = FileAfterLoad(ledgerExists, ledger)
    /\ ledgerExists' = TRUE
    /\ UNCHANGED << run, config, scratch, frameDirs, frameSet, locals,
                    netCalls, runDownloaded, runExtracted, outcomes, summary,
                    crashedIn, noNew, apiAnswer, startOfRun, dlFailed, stageCalls, keptFiles >>

\* lines 193-200: main up to the configuration test
MainConfig ==
    /\ pc = "main"
    /\ pc' = IF ConfigIsPlaceholder(username, client_id, token) THEN "done" ELSE "load"
    /\ UNCHANGED << run, config, disk, locals, history, startOfRun, dlFailed >>

\* line 201: processed_video_ids = load_processed_videos()
LoadLedger ==
    /\ pc = "load"
    /\ pc' = "resolve"
    /\ processed_video_ids' = load_processed_videos(ledgerExists, ledger)
    /\ ledgerOps' = ledgerOps \cup { LoadOp(ledgerExists) }
    /\ ledger' = FileAfterLoad(ledgerExists, ledger)
    /\ ledgerExists' = TRUE
    /\ UNCHANGED << run, config, scratch, frameDirs, frameSet, user_id,
                    videos_data, new_videos, idx, downloaded_video_path,
                    success_count, failure_count, netCalls, runDownloaded,
                    runExtracted, outcomes, summary, crashedIn, noNew,
                    apiAnswer, startOfRun, dlFailed, stageCalls, keptFiles >>

\* lines 202-205: user_id = get_twitch_user_id(...); return when it is falsy
ResolveChannel ==
    /\ pc = "resolve"
    /\ \E resp \in UserAnswers(username) :
       LET r == get_twitch_user_id(client_id, token, resp)
       IN  /\ netCalls' = netCalls + r.net
           /\ user_id' = r.ret
           /\ apiAnswer' = IF r.net > 0 THEN resp ELSE apiAnswer
           /\ crashedIn' = IF r.exc # "none" THEN "get_twitch_user_id" ELSE crashedIn
           /\ pc' = IF r.exc # "none" THEN "crashed" ELSE AfterResolve(r.ret)
    /\ UNCHANGED << run, config, disk, processed_video_ids, videos_data,
                    new_videos, idx, downloaded_video_path, success_count,
                    failure_count, ledgerOps, runDownloaded, runExtracted,
                    outcomes, summary, noNew, startOfRun, dlFailed, stageCalls, keptFiles >>

\* the entries a "data" list can hold
Entries == [ id : Ids \cup { NoId }, title : { "t" } ]

\* the "data" lists of at most MaxListing entries
Listings == UNION { [ 1..n -> Entries ] : n \in 0..MaxListing }

\* no entry of the listing carries an identifier that is not yet a ledger line
NothingNew(data, lines) ==
    \A k \in DOMAIN data : Truthy(data[k].id) => data[k].id \in LedgerIds(lines)

\* line 214 and line 235: the position after the item at i - 1 is finished
LoopPc(i) == IF i <= Len(new_videos) THEN "download" ELSE "done"

\* lines 206-213: new_videos = get_new_videos(...); return when it is empty;
\* ensure_dir(temp_download_dir); the counters start at 0
ListVideos(resp, data) ==
    /\ pc = "list"
    /\ resp # "ok" => data = << >>
    /\ LET r == get_new_videos(resp, data, processed_video_ids)
       IN  /\ new_videos' = r.ret
           /\ crashedIn' = IF r.exc # "none" THEN "get_new_videos" ELSE crashedIn
           /\ IF r.exc # "none"
              THEN /\ pc' = "crashed"
                   /\ UNCHANGED << idx, summary >>
              ELSE IF ReturnsOnEmpty(r.ret)
              THEN /\ pc' = "done"
                   /\ UNCHANGED << idx, summary >>
              ELSE /\ idx' = 1
                   /\ pc' = IF 1 <= Len(r.ret) THEN "download" ELSE "done"
                   /\ summary' = ~(1 <= Len(r.ret))
    /\ netCalls' = netCalls + 1
    /\ apiAnswer' = resp
    /\ noNew' = (resp = "ok" /\ NothingNew(data, ledger))
    /\ videos_data' = data
    /\ UNCHANGED << run, config, disk, processed_video_ids, user_id,
                    downloaded_video_path, success_count,
                    failure_count, ledgerOps, runDownloaded, runExtracted,
                    outcomes, startOfRun, dlFailed, stageCalls, keptFiles >>

\* lines 218-219 and 232-234: downloaded_video_path = download_video(video_id, ...)
DownloadVideo ==
    /\ pc = "download"
    /\ \E outcome \in DownloadOutcomes :
       \E pick \in FirstMatches(FilesAfterDownload(scratch, CurId, outcome), CurId) :
       LET r == download_video(CurId, scratch, outcome, pick)
       IN  /\ scratch' = r.files
           /\ downloaded_video_path' = r.ret
           /\ runDownloaded' =
                 IF Truthy(r.ret) THEN runDownloaded \cup { CurId } ELSE runDownloaded
           /\ dlFailed' = IF Truthy(r.ret) THEN dlFailed ELSE dlFailed \cup { CurId }
           /\ stageCalls' = stageCalls + 1
           /\ IF AfterDownload(r.ret) = "extract"
              THEN /\ pc' = "extract"
                   /\ UNCHANGED << idx, failure_count, outcomes, summary >>
              ELSE /\ failure_count' = CountFailure(failure_count)
                   /\ outcomes' = Append(outcomes, "dl_fail")
                   /\ idx' = idx + 1
                   /\ pc' = LoopPc(idx + 1)
                   /\ summary' = (LoopPc(idx + 1) = "done")
    /\ UNCHANGED << run, config, ledgerExists, ledger, frameDirs, frameSet,
                    processed_video_ids, user_id, videos_data, new_videos,
                    success_count, netCalls, ledgerOps, runExtracted,
                    crashedIn, noNew, apiAnswer, startOfRun, keptFiles >>

\* lines 220 and 229-231: if extract_frames(downloaded_video_path, video_id, ...)
ExtractFrames(outcome) ==
    /\ pc = "extract"
    /\ LET r == extract_frames(downloaded_video_path, CurId, scratch, frameDirs, outcome)
       IN  /\ frameDirs' = r.dirs
           /\ frameSet' = IF r.ret THEN frameSet \cup { CurId } ELSE frameSet
           /\ runExtracted' = IF r.ret THEN runExtracted \cup { CurId } ELSE runExtracted
           /\ stageCalls' = stageCalls + 1
           /\ keptFiles' = IF r.exc = "none" /\ ~r.ret
                            THEN keptFiles \cup { << CurId, downloaded_video_path >> }
                            ELSE keptFiles
           /\ IF r.exc # "none"
              THEN /\ pc' = "crashed"
                   /\ crashedIn' = "extract_frames"
                   /\ UNCHANGED << idx, failure_count, outcomes, summary >>
              ELSE IF AfterExtract(r.ret) = "save"
              THEN /\ pc' = "save"
                   /\ UNCHANGED << idx, failure_count, outcomes, summary, crashedIn >>
              ELSE /\ failure_count' = CountFailure(failure_count)
                   /\ outcomes' = Append(outcomes, "ex_fail")
                   /\ idx' = idx + 1
                   /\ pc' = LoopPc(idx + 1)
                   /\ summary' = (LoopPc(idx + 1) = "done")
                   /\ UNCHANGED crashedIn
    /\ UNCHANGED << run, config, ledgerExists, ledger, scratch,
                    processed_video_ids, user_id, videos_data, new_videos,
                    downloaded_video_path, success_count, netCalls, ledgerOps,
                    runDownloaded, noNew, apiAnswer, startOfRun, dlFailed >>

\* lines 221-223: save_processed_video(video_id); success_count += 1.
\* written is FALSE when open / write raises OSError, which nothing catches
SaveProcessed(written) ==
    /\ pc = "save"
    /\ IF written
       THEN /\ ledger' = save_processed_video(ledger, CurId)
            /\ ledgerOps' = ledgerOps \cup { "append" }
            /\ success_count' = success_count + 1
            /\ outcomes' = Append(outcomes, "ok")
            /\ pc' = "remove"
            /\ UNCHANGED crashedIn
       ELSE /\ pc' = "crashed"
            /\ crashedIn' = "save_processed_video"
            /\ UNCHANGED << ledger, ledgerOps, success_count, outcomes >>
    /\ UNCHANGED << run, config, ledgerExists, scratch, frameDirs, frameSet,
                    processed_video_ids, user_id, videos_data, new_videos, idx,
                    downloaded_video_path, failure_count, netCalls,
                    runDownloaded, runExtracted, summary, noNew, apiAnswer,
                    startOfRun, dlFailed, stageCalls, keptFiles >>

\* lines 224-228: os.remove(downloaded_video_path); removed is FALSE when it
\* raises OSError, which is logged
RemoveTemp(removed) ==
    /\ pc = "remove"
    /\ scratch' = IF removed THEN scratch \ { downloaded_video_path } ELSE scratch
    /\ IF AfterRemove(removed) = "next"
       THEN /\ idx' = idx + 1
            /\ pc' = LoopPc(idx + 1)
            /\ summary' = (LoopPc(idx + 1) = "done")
            /\ UNCHANGED crashedIn
       ELSE /\ pc' = "crashed"
            /\ crashedIn' = "main"
            /\ UNCHANGED << idx, summary >>
    /\ UNCHANGED << run, config, ledgerExists, ledger, frameDirs, frameSet,
                    processed_video_ids, user_id, videos_data, new_videos,
                    downloaded_video_path, success_count, failure_count,
                    netCalls, ledgerOps, runDownloaded, runExtracted, outcomes,
                    noNew, apiAnswer, startOfRun, dlFailed, stageCalls, keptFiles >>

\* main returned (lines 200, 205, 209, 235) or an exception ended the process
Exit ==
    /\ pc \in { "done", "crashed" }
    /\ pc' = "idle"
    /\ lastRun' = pc
    /\ NoLocals
    /\ NoHistory
    /\ UNCHANGED << run, config, disk, ledgerStart, ledgerStartExists, dlFailed >>

\* the process is killed between two steps
Interrupt ==
    /\ pc \notin { "idle", "done", "crashed" }
    /\ pc' = "idle"
    /\ lastRun' = "killed"
    /\ NoLocals
    /\ NoHistory
    /\ UNCHANGED << run, config, disk, ledgerStart, ledgerStartExists, dlFailed >>

Next ==
    \/ \E u \in ConfigValues, cid \in ConfigValues, tok \in ConfigValues :
          Start(u, cid, tok)
    \/ Preamble
    \/ MainConfig
    \/ LoadLedger
    \/ ResolveChannel
    \/ \E resp \in VideoResponses, data \in Listings : ListVideos(resp, data)
    \/ DownloadVideo
    \/ \E outcome \in ExtractOutcomes : ExtractFrames(outcome)
    \/ \E written \in BOOLEAN : SaveProcessed(written)
    \/ \E removed \in BOOLEAN : RemoveTemp(removed)
    \/ Exit
    \/ Interrupt

Spec == Init /\ [][Next]_vars

-----------------------------------------------------------------------------
(* The filter of get_new_videos on its own: every listing against every     *)
(* loaded set.                                                              *)

\* entries with and without "id" and "title"
FilterEntries == [ id : Ids \cup { NoId }, title : { "t", NoTitle } ]

FilterListings == UNION { [ 1..n -> FilterEntries ] : n \in 0..MaxFilterLen }

\* the sets load_processed_videos can return for ledgers over Ids
LoadedSets == SUBSET { Strip(SaveLine(i)) : i \in Ids }

InitFilter ==
    /\ run = 0
    /\ pc = "filter"
    /\ username = "valid"
    /\ client_id = "valid"
    /\ token = "valid"
    /\ ledgerExists = TRUE
    /\ ledger = << >>
    /\ processed_video_ids \in LoadedSets
    /\ user_id = "uid"
    /\ videos_data \in FilterListings
    /\ new_videos = << >>
    /\ idx = 0
    /\ downloaded_video_path = None
    /\ success_count = 0
    /\ failure_count = 0
    /\ scratch = {}
    /\ frameDirs = {}
    /\ frameSet = {}
    /\ netCalls = 0
    /\ ledgerOps = {}
    /\ ledgerStart = << >>
    /\ ledgerStartExists = TRUE
    /\ runDownloaded = {}
    /\ runExtracted = {}
    /\ outcomes = << >>
    /\ summary = FALSE
    /\ crashedIn = "none"
    /\ noNew = FALSE
    /\ apiAnswer = "none"
    /\ lastRun = "none"
    /\ stageCalls = 0
    /\ keptFiles = {}
    /\ dlFailed = {}

\* lines 98-112 on a well-formed answer
ApplyFilter ==
    /\ pc = "filter"
    /\ pc' = "filtered"
    /\ new_videos' = get_new_videos("ok", videos_data, processed_video_ids).ret
    /\ apiAnswer' = "ok"
    /\ UNCHANGED << run, config, disk, processed_video_ids, user_id,
                    videos_data, idx, downloaded_video_path, success_count,
                    failure_count, netCalls, ledgerOps, runDownloaded,
                    runExtracted, outcomes, summary, crashedIn, noNew,
                    startOfRun, dlFailed, stageCalls, keptFiles >>

NextFilter == ApplyFilter

SpecFilter == InitFilter /\ [][NextFilter]_vars

-----------------------------------------------------------------------------
(* Repeated launches: the script is launched again and again with a valid   *)
(* configuration, and no launch is killed, until the ledger holds a line of *)
(* the item Target, which stays in every listing the API returns. Launches  *)
(* are not counted here.                                                    *)

\* the item whose recording is followed
Target == IdPad

\* the script is launched once more (lines 237-240)
Relaunch ==
    /\ Target \notin LedgerIds(ledger)
    /\ Launch("valid", "valid", "valid")
    /\ UNCHANGED run

\* line 202: the users endpoint answers with the user id
ResolveOk == ResolveChannel /\ pc' = "list"

\* Target is among the entries of the listing
HoldsTarget(data) == \E k \in DOMAIN data : data[k].id = Target

\* lines 206, 89-104: the videos endpoint does not answer, or answers with a
\* listing that holds Target
ListVideosLive ==
    \E resp \in VideoResponses, data \in Listings :
        /\ resp = "ok" => HoldsTarget(data)
        /\ ListVideos(resp, data)

\* lines 206, 98-104: the videos endpoint answers with a listing
ListTarget ==
    \E data \in Listings :
        /\ HoldsTarget(data)
        /\ ListVideos("ok", data)

\* line 218: download_video returns a path for Target
DownloadTargetOk ==
    /\ DownloadVideo
    /\ CurId = Target
    /\ Truthy(downloaded_video_path')

\* line 220: extract_frames returns True for Target
ExtractTargetOk ==
    /\ ExtractFrames("ok")
    /\ CurId = Target
    /\ pc' = "save"

\* line 221: the append to the ledger file succeeds
SaveOk == SaveProcessed(TRUE)

NextLive ==
    \/ Relaunch
    \/ Preamble
    \/ MainConfig
    \/ LoadLedger
    \/ ResolveChannel
    \/ ListVideosLive
    \/ DownloadVideo
    \/ \E outcome \in ExtractOutcomes : ExtractFrames(outcome)
    \/ \E written \in BOOLEAN : SaveProcessed(written)
    \/ \E removed \in BOOLEAN : RemoveTemp(removed)
    \/ Exit

\* the process and its launcher keep going; resolution and listing succeed
\* again and again, with Target in the listing; the downloader and the frame
\* sampler succeed for Target, and the ledger file can be appended to, whenever
\* they are asked again and again
Fairness ==
    /\ WF_vars(NextLive)
    /\ SF_vars(ResolveOk)
    /\ SF_vars(ListTarget)
    /\ SF_vars(DownloadTargetOk)
    /\ SF_vars(ExtractTargetOk)
    /\ SF_vars(SaveOk)

SpecLive == Init /\ [][NextLive]_vars /\ Fairness

-----------------------------------------------------------------------------
(* Properties *)

\* the ledger lines this launch appended
AppendedThisRun == SubSeq(ledger, Len(ledgerStart) + 1, Len(ledger))

\* the program is in the per-item part of main
InItem == pc \in { "download", "extract", "save", "remove" }

\* C1: no identifier is recorded twice: the ledger file never holds two equal
\* lines, whatever the listings and the stage outcomes of the launches were.
C1_AtMostOnce ==
    \A j \in DOMAIN ledger, k \in DOMAIN ledger : ledger[j] = ledger[k] => j = k

\* C2: every identifier on the ledger has a Frame Set (extract_frames returned
\* True for it), in every state, killed launches included; a line appended by the
\* running launch is of an identifier for which download_video returned a path and
\* extract_frames returned True in this launch, and save_processed_video is only
\* reached with both results in hand.
C2_CommitOrdering ==
    /\ LedgerIds(ledger) \subseteq frameSet
    /\ pc # "idle" =>
          LedgerIds(AppendedThisRun) \subseteq (runDownloaded \cap runExtracted)
    /\ pc = "save" =>
          /\ Truthy(downloaded_video_path)
          /\ CurId \in runDownloaded
          /\ CurId \in runExtracted

\* C2 witness: a second launch has just appended an identifier to a ledger that
\* an earlier launch left non-empty.
C2_Witness ==
    /\ run = 2
    /\ pc = "remove"
    /\ ledgerStart # << >>
    /\ Len(ledger) > Len(ledgerStart)

\* C3 as stated: at every run boundary, also after a killed launch, an identifier
\* is on the ledger exactly when both stages completed for it.
C3_LedgerIffBothStages ==
    pc \in { "idle", "done" } => LedgerIds(ledger) = frameSet

\* C3 amended: an identifier on the ledger always had both stages complete, and
\* when a launch reaches Done every identifier for which both stages completed in
\* that launch is on the ledger.
C3_LedgerIffAtDone ==
    /\ LedgerIds(ledger) \subseteq frameSet
    /\ pc = "done" => runExtracted \subseteq LedgerIds(ledger)

\* C3 witness: a launch reached Done with one item recorded and one failed.
C3_Witness ==
    /\ pc = "done"
    /\ runExtracted # {}
    /\ failure_count > 0

\* the number of failed items among the finished ones
Failures == Cardinality({ k \in DOMAIN outcomes : outcomes[k] # "ok" })

\* the identifiers of the finished items whose two stages succeeded, in order
RECURSIVE OkLines(_)
OkLines(k) ==
    IF k = 0 THEN << >>
    ELSE IF outcomes[k] = "ok"
         THEN Append(OkLines(k - 1), SaveLine(new_videos[k].id))
         ELSE OkLines(k - 1)

\* C4: when a launch that had a worklist ends, every item of the worklist was
\* visited, exactly the items whose two stages succeeded were appended to the
\* ledger, and failure_count is the number of failed items.
C4_Isolation ==
    (pc \in { "done", "crashed" } /\ new_videos # << >>) =>
        /\ Len(outcomes) = Len(new_videos)
        /\ AppendedThisRun = OkLines(Len(outcomes))
        /\ failure_count = Failures
        /\ summary

\* the subsequence of the listing the claim C5 describes
NotInSet(video) == video.id \notin processed_video_ids
HasIdNotInSet(video) == Truthy(video.id) /\ video.id \notin processed_video_ids

\* C5 as stated: the worklist is the subsequence of the listing of the entries
\* whose identifier is not in the loaded set.
C5_DedupFiltering ==
    pc = "filtered" =>
        LET sel == SelectSeq(videos_data, NotInSet)
        IN  /\ Len(new_videos) = Len(sel)
            /\ \A k \in DOMAIN sel : new_videos[k].id = sel[k].id

\* C5 amended: the worklist is the subsequence, in listing order, of the entries
\* that carry a non-empty identifier which is not in the loaded set; each keeps
\* its identifier and its title ("Untitled Video" when it has none).
C5_DedupFilteringNonEmptyId ==
    pc = "filtered" =>
        LET sel == SelectSeq(videos_data, HasIdNotInSet)
        IN  /\ Len(new_videos) = Len(sel)
            /\ \A k \in DOMAIN sel :
                  /\ new_videos[k].id = sel[k].id
                  /\ new_videos[k].title =
                        IF sel[k].title = NoTitle THEN Untitled ELSE sel[k].title

\* C5 witness: a listing of three entries with identifiers, the middle one in
\* the loaded set, gives the worklist of the first and the third.
C5_Witness ==
    /\ pc = "filtered"
    /\ Len(videos_data) = 3
    /\ videos_data[1].id = IdPad
    /\ videos_data[2].id = IdA
    /\ videos_data[3].id = IdPad
    /\ processed_video_ids = { IdA }
    /\ Len(new_videos) = 2

\* C6: in a launch that follows a launch which reached Done, when every
\* identifier of the listing is already a line of the ledger, nothing is
\* downloaded, extracted or appended and the ledger stays as it was.
C6_Idempotence ==
    (run >= 2 /\ lastRun = "done" /\ noNew) =>
        /\ ~InItem
        /\ runDownloaded = {}
        /\ runExtracted = {}
        /\ outcomes = << >>
        /\ ledger = ledgerStart

\* a credential is left at its placeholder
PlaceholderCredential == client_id = Placeholder \/ token = Placeholder

\* C7 as stated: a launch with a placeholder credential makes no network call
\* and neither creates, reads nor writes the ledger file.
C7_ConfigGate ==
    (pc # "idle" /\ PlaceholderCredential) =>
        /\ netCalls = 0
        /\ ledgerOps = {}
        /\ ledgerExists = ledgerStartExists
        /\ ledger = ledgerStart

\* C7 amended: a launch with a placeholder credential makes no network call,
\* main returns before it loads the ledger and no line is appended or changed;
\* the only access to the ledger file is the load of line 239, before main, which
\* creates the file when it is missing and reads it otherwise.
C7_ConfigGateInMain ==
    (pc # "idle" /\ PlaceholderCredential) =>
        /\ netCalls = 0
        /\ pc \in { "boot", "main", "done" }
        /\ ledger = ledgerStart
        /\ ledgerOps \subseteq { LoadOp(ledgerStartExists) }
        /\ pc = "boot" => ledgerOps = {}

\* C7 witness: main returned on a placeholder token, the other settings valid,
\* after line 239 created the ledger file.
C7_Witness ==
    /\ pc = "done"
    /\ username = "valid"
    /\ client_id = "valid"
    /\ token = Placeholder
    /\ ledgerOps = { "create" }
    /\ ledgerExists

\* C8: neither stage is ever started for an identifier that is on the ledger at
\* that moment.
C8_NoReprocessing ==
    pc \in { "download", "extract" } => CurId \notin LedgerIds(ledger)

\* C9: whatever the remote API answers to a launch with a channel name and
\* credentials, no exception leaves get_twitch_user_id or get_new_videos, and on
\* an answer other than a well-formed one the launch ends in Done with nothing to
\* process.
C9_CatalogContainment ==
    (username = "valid" /\ pc # "idle") =>
        /\ crashedIn \notin { "get_twitch_user_id", "get_new_videos" }
        /\ apiAnswer \notin { "none", "ok" } =>
              /\ pc = "done"
              /\ new_videos = << >>

\* a setting is missing or left at its placeholder
SettingUnset(v) == v = "" \/ v = Placeholder

\* C10: a launch whose channel name, client id or token is empty or a
\* placeholder makes no network call.
C10_ConfigErrorCoversAll ==
    (SettingUnset(username) \/ SettingUnset(client_id) \/ SettingUnset(token)) =>
        netCalls = 0

\* one sequence is the beginning of the other
IsPrefix(s, t) == Len(s) <= Len(t) /\ SubSeq(t, 1, Len(s)) = s

\* C11: the ledger is append-only: every step leaves the lines the file held as
\* the beginning of the lines it holds afterwards and never deletes the file, and
\* a file that does not exist holds no lines.
C11_AppendOnly ==
    /\ [][IsPrefix(ledger, ledger') /\ (ledgerExists => ledgerExists')]_vars
    /\ [](~ledgerExists => ledger = << >>)

\* C11 witness: a launch that found a ledger of one line, and read it twice
\* (line 239 and line 201), has appended a second line behind it.
C11_Witness ==
    /\ pc = "remove"
    /\ ledgerStartExists
    /\ Len(ledgerStart) = 1
    /\ ledgerOps = { "read", "append" }
    /\ Len(ledger) = 2
    /\ ledger[1] = ledgerStart[1]

\* a step in which download_video returned None to main
DownloadFailedStep ==
    /\ pc = "download"
    /\ pc' # "idle"
    /\ ~Truthy(downloaded_video_path')

\* this launch obtained a well-formed listing from the API
ListingObtained ==
    /\ pc \in { "download", "extract", "save", "remove", "done" }
    /\ netCalls = 2
    /\ apiAnswer = "ok"

\* the identifiers of the worklist
WorklistIds == { new_videos[n].id : n \in DOMAIN new_videos }

ExtractFailedStep ==
    /\ pc = "extract"
    /\ pc' \notin { "idle", "crashed", "save" }

\* C13: a False extract_frames leaves the downloaded file in place, writes no
\* ledger line and adds one to failure_count; os.remove after a True
\* extract_frames takes away the downloaded file or nothing; and the launch
\* never deletes the file downloaded for an item whose transform failed in it.
C13_FileLifecycle ==
    /\ [][ExtractFailedStep =>
            /\ downloaded_video_path \in scratch'
            /\ ledger' = ledger
            /\ failure_count' = failure_count + 1]_vars
    /\ [][(pc = "remove" /\ pc' # "idle") =>
            \/ scratch' = scratch
            \/ scratch' = scratch \ { downloaded_video_path }]_vars
    /\ [](\A kf \in keptFiles : kf[1] \notin runExtracted => kf[2] \in scratch)

\* a step in which os.remove raised OSError: the file main tried to delete is
\* still there
RemoveFailedStep ==
    /\ pc = "remove"
    /\ pc' # "idle"
    /\ downloaded_video_path \in scratch'

\* C14: when os.remove fails after a True extract_frames, the ledger line of
\* the item stays, the item stays counted as a success and not as a failure,
\* and the launch goes on to the next worklist item or to the summary.
C14_CleanupFailureNonFatal ==
    [][RemoveFailedStep =>
         /\ ledger' = ledger
         /\ ledger[Len(ledger)] = SaveLine(CurId)
         /\ success_count' = success_count
         /\ failure_count' = failure_count
         /\ outcomes' = outcomes
         /\ outcomes[Len(outcomes)] = "ok"
         /\ idx' = idx + 1
         /\ pc' = LoopPc(idx + 1)]_vars

\* C14 witness: os.remove failed for the first item, whose file is still in
\* the scratch directory, and the launch is at the second item with one
\* success counted.
C14_Witness ==
    /\ pc = "download"
    /\ idx = 2
    /\ outcomes = << "ok" >>
    /\ success_count = 1
    /\ downloaded_video_path \in scratch
    /\ new_videos[1].id \in LedgerIds(ledger)

\* a step in which get_twitch_user_id returned None to main: a placeholder or
\* empty credential, an empty "data" list, an HTTP or transport error
ResolveFailedStep ==
    /\ pc = "resolve"
    /\ pc' \notin { "idle", "crashed" }
    /\ user_id' = ""

\* C15: when channel resolution fails the launch goes straight to Done; and a
\* launch that reaches Done without a worklist (configuration abort, failed
\* resolution, failed or empty listing) has called neither download_video nor
\* extract_frames, has processed no item, and leaves the ledger lines, the
\* scratch files and the sets of frames as they were when it started.
C15_AbortLeavesNoTrace ==
    /\ [][ResolveFailedStep =>
            /\ pc' = "done"
            /\ new_videos' = << >>
            /\ disk' = disk]_vars
    /\ []((pc = "done" /\ new_videos = << >>) =>
            /\ stageCalls = 0
            /\ outcomes = << >>
            /\ success_count = 0
            /\ failure_count = 0
            /\ ledger = ledgerStart
            /\ LedgerIds(ledger) = LedgerIds(ledgerStart)
            /\ "append" \notin ledgerOps)
    /\ [][(pc' = "done" /\ new_videos' = << >>) =>
            /\ scratch' = scratch
            /\ frameDirs' = frameDirs
            /\ frameSet' = frameSet]_vars

\* C15 witness: the second launch, started on a ledger of one line, is at Done
\* after an HTTP error of the users endpoint.
C15_Witness ==
    /\ pc = "done"
    /\ run = 2
    /\ Len(ledgerStart) = 1
    /\ netCalls = 1
    /\ apiAnswer = "http_error"
    /\ user_id = ""

\* C16 as stated: every launch at Done has logged the summary of line 235.
C16_SummaryAtDone == pc = "done" => summary

\* C16, amended: a launch at Done has logged the summary of line 235 exactly
\* when it had a worklist to process; the returns of lines 200, 205 and 209
\* (placeholder configuration, no user id, nothing new) log no summary.
C16_SummaryIffWorklist ==
    /\ pc = "done" => (summary <=> new_videos # << >>)
    /\ summary => (pc = "done" /\ success_count + failure_count = Len(new_videos))

\* C16 witness: a launch at Done after its last worklist item, summary logged.
C16_Witness ==
    /\ pc = "done"
    /\ summary
    /\ Len(new_videos) = 2
    /\ success_count = 1
    /\ failure_count = 1

\* C17: no exception escapes download_video or extract_frames: every failure
\* of a stage reaches main as the returned None or False.
C17_StageErrorsAreValues ==
    crashedIn \notin { "download_video", "extract_frames" }

\* C18: the path download_video returned for the item main is at, which main
\* extracts frames from and then deletes, is the file named after that item's
\* identifier, not a file left in the scratch directory for another identifier.
C18_AcquiredFileBelongsToItem ==
    pc \in { "extract", "save", "remove" } => downloaded_video_path = FileName(CurId)

C20_EventuallyRecorded == <>(Target \in LedgerIds(ledger))

\* launches end with an uncaught exception again and again
CrashesForever == []<>(pc = "crashed")

\* repeated launches record Target unless they keep ending with a traceback
RecordedUnlessCrashes == CrashesForever \/ C20_EventuallyRecorded

====
